---- MODULE Spec2Model ----
(***************************************************************************)
(* The backtest engine of the MCX gold dashboard: the BacktestPanel        *)
(* component of gold_analysis_dashboard/src/components/BacktestPanel.jsx.  *)
(*                                                                         *)
(* Numbers.  Prices, lots and costs are integers.  Money (cash, equity,    *)
(* capital) is held in units of 1/MoneyUnit rupee and the margin in units  *)
(* of 1/MoneyUnit percent, so that a fractional margin such as 12.25 %     *)
(* yields capital that Math.round really rounds.  Arithmetic is exact      *)
(* (rational): the binary rounding of IEEE doubles is not modelled.  A     *)
(* division whose result may be non-finite yields a JS number record:      *)
(* [kind |-> "num", num, den], or kind "inf", "-inf", "nan".               *)
(*                                                                         *)
(* Dates are <<year, month, day>>; the code compares ISO strings           *)
(* YYYY-MM-DD, whose order is the lexicographic order of the triple.       *)
(***************************************************************************)
EXTENDS Integers, Sequences, FiniteSets, TLC

VARIABLES
    fullData,        \* prop: the observation series
    config,          \* useState: configuration
    stats,           \* useState: summary statistics, NullStats before any run
    equityCurve,     \* useState
    drawdownCurve,   \* useState
    yearlyReturns,   \* useState
    tradeLog,        \* useState
    pending,         \* the useEffect on [config, fullData] is scheduled
    pc,              \* position in runBacktest: "idle", "loop"
    data,            \* runBacktest local: the filtered series
    i,               \* loop index (1-based)
    initialCapital,  \* runBacktest locals ...
    currentLots,
    cash,
    entryPrice,
    baselineCapital,
    peakEquity,
    currentEquity,   \* the last iteration's currentEquity
    equitySeries,
    drawdownSeries,
    trades

published == <<stats, equityCurve, drawdownCurve, yearlyReturns, tradeLog>>
locals == <<data, i, initialCapital, currentLots, cash, entryPrice,
            baselineCapital, peakEquity, currentEquity, equitySeries,
            drawdownSeries, trades>>
vars == <<fullData, config, published, pending, pc, locals>>

----------------------------------------------------------------------------
(* Bounds and program constants *)

MaxDays == 3

CONTRACT_MULTIPLIER == 100

MoneyUnit == 4

Money(rupees) == rupees * MoneyUnit

----------------------------------------------------------------------------
(* Dates *)

NoDate == <<>>

DateLess(a, b) ==
    \/ a[1] < b[1]
    \/ a[1] = b[1] /\ a[2] < b[2]
    \/ a[1] = b[1] /\ a[2] = b[2] /\ a[3] < b[3]

DateLeq(a, b) == a = b \/ DateLess(a, b)

YearOf(date) == date[1]

\* Days since 1970-01-01 of a civil date (what new Date("YYYY-MM-DD") holds,
\* in days).
DayNumber(date) ==
    LET y   == IF date[2] <= 2 THEN date[1] - 1 ELSE date[1]
        era == y \div 400
        yoe == y - era * 400
        mp  == IF date[2] > 2 THEN date[2] - 3 ELSE date[2] + 9
        doy == (153 * mp + 2) \div 5 + date[3] - 1
        doe == yoe * 365 + yoe \div 4 - yoe \div 100 + doy
    IN  era * 146097 + doe - 719468

DefaultStartDate == <<2014, 1, 1>>
Today == <<2026, 11, 3>>

----------------------------------------------------------------------------
(* JS numbers that may be non-finite *)

Num(n, d) == [kind |-> "num", num |-> n, den |-> d]
PosInf == [kind |-> "inf", num |-> 0, den |-> 1]
NegInf == [kind |-> "-inf", num |-> 0, den |-> 1]
NaN == [kind |-> "nan", num |-> 0, den |-> 1]

IsFinite(x) == x.kind = "num"

Abs(n) == IF n < 0 THEN -n ELSE n

\* n / d for integers n, d as JS computes it: x/0 is +-Infinity, 0/0 is NaN.
JsDiv(n, d) ==
    IF d = 0
    THEN IF n > 0 THEN PosInf ELSE IF n < 0 THEN NegInf ELSE NaN
    ELSE IF d < 0 THEN Num(-n, -d) ELSE Num(n, d)

\* Math.round of u/MoneyUnit: the nearest integer, a tie going up.
MathRound(u) == (2 * u + MoneyUnit) \div (2 * MoneyUnit)

\* The number x.toFixed(digits) denotes, in units of 10^-digits (scale is
\* 10^digits): the nearest multiple, a tie going away from zero.
\* "Infinity", "-Infinity" and "NaN" are printed and parsed back as such.
ToFixed(x, scale) ==
    IF x.kind # "num" THEN x
    ELSE LET n == Abs(x.num)
             rest == (n % x.den) * scale
             q == (n \div x.den) * scale + rest \div x.den
                    + (IF 2 * (rest % x.den) >= x.den THEN 1 ELSE 0)
         IN  Num(IF x.num < 0 THEN -q ELSE q, scale)

\* a + b on JS numbers.
JsAdd(a, b) ==
    IF a.kind = "nan" \/ b.kind = "nan" THEN NaN
    ELSE IF a.kind = "num" /\ b.kind = "num"
         THEN Num(a.num * b.den + b.num * a.den, a.den * b.den)
    ELSE IF a.kind = "num" THEN b
    ELSE IF b.kind = "num" THEN a
    ELSE IF a.kind = b.kind THEN a ELSE NaN

----------------------------------------------------------------------------
(* The input series: one observation per trading day *)

\* The date of the n-th observation: two trading days a year, from 2014.
DataDate(n) ==
    IF n % 2 = 1 THEN <<2014 + (n - 1) \div 2, 6, 30>>
                 ELSE <<2014 + (n - 1) \div 2, 12, 31>>

\* The k-th contract expires at the end of year 2013 + k; its label
\* (DDMmmYYYY) is identified with k.
ExpiryDate(k) == <<2013 + k, 12, 31>>

NearPrices == {90, 100, 102, 120}

\* While contract k is the near one, the far contract trades k above it.
Obs(n, near, k, dated) ==
    [date |-> DataDate(n), price_near |-> near, price_far |-> near + k,
     expiry_near |-> k,
     expiry_near_date |-> IF dated THEN ExpiryDate(k) ELSE NoDate]

\* All series of n observations: dates ascend, the near contract starts at 1
\* and stays or moves to the next one from a day to the next.
RECURSIVE SeriesOfLen(_, _)
SeriesOfLen(n, dated) ==
    IF n = 0 THEN {<<>>}
    ELSE UNION {
        { Append(s, Obs(n, near, k, dated)) :
            near \in NearPrices,
            k \in (IF n = 1 THEN {1}
                   ELSE {s[n-1].expiry_near, s[n-1].expiry_near + 1}) }
        : s \in SeriesOfLen(n - 1, dated) }

SeriesSet == UNION { SeriesOfLen(n, dated) : n \in 0..MaxDays, dated \in BOOLEAN }

\* The scenario of the specification's section 8.
ScenarioData ==
    << Obs(1, 100, 1, FALSE), Obs(2, 102, 1, FALSE), Obs(3, 102, 2, FALSE) >>

----------------------------------------------------------------------------
(* Configuration *)

\* p percent, in the unit the margin is held in.
Percent(p) == p * MoneyUnit

\* useState's initial configuration.
DefaultConfig ==
    [startDate |-> DefaultStartDate, endDate |-> Today, initialLots |-> 1,
     initialMarginPercent |-> Percent(12), transactionCost |-> 1800,
     compoundingFactor |-> 200, isCompounding |-> TRUE, neverCompound |-> FALSE]

\* The configuration of the scenario of section 8.
ScenarioConfig ==
    [DefaultConfig EXCEPT !.initialMarginPercent = Percent(10),
                          !.transactionCost = 50]

StartDates == {DefaultStartDate, DataDate(2)}
EndDates == {Today, DataDate(3)}
LotChoices == {1, 2}
MarginChoices == {0, Percent(10), Percent(12) + 1}    \* 0 %, 10 %, 12.25 %
FactorChoices == {200, 20}

\* The configurations the engine is run on: the scenario's, with the window,
\* the position size and compounding threshold, the margin, the cost or the
\* compounding switch varied.
EngineConfigs ==
    { [ScenarioConfig EXCEPT !.startDate = s, !.endDate = e] :
        s \in StartDates, e \in EndDates }
    \cup { [ScenarioConfig EXCEPT !.initialLots = l, !.compoundingFactor = f] :
        l \in LotChoices, f \in FactorChoices }
    \cup { [ScenarioConfig EXCEPT !.initialMarginPercent = m] : m \in MarginChoices }
    \cup { DefaultConfig,
           [ScenarioConfig EXCEPT !.neverCompound = TRUE, !.isCompounding = FALSE] }

----------------------------------------------------------------------------
(* runBacktest: the pure parts *)

InWindow_ExclusiveEnd(d, cfg) ==
    DateLeq(cfg.startDate, d.date) /\ DateLess(d.date, cfg.endDate)

\* fullData.filter(d => d.date >= config.startDate && d.date <= config.endDate)
InWindow(d, cfg) == DateLeq(cfg.startDate, d.date) /\ DateLeq(d.date, cfg.endDate)

FilterData(series, cfg) ==
    LET Keep(d) == InWindow(d, cfg) IN SelectSeq(series, Keep)

InitialCapital_FullNotional(startPrice, cfg) ==
    Money(startPrice * CONTRACT_MULTIPLIER * cfg.initialLots)

\* contractValue * (initialMarginPercent / 100), in money units.
InitialCapital(startPrice, cfg) ==
    (startPrice * CONTRACT_MULTIPLIER * cfg.initialLots * cfg.initialMarginPercent)
        \div 100

RolloverDue_RequiresDate(series, n) ==
    /\ n > 1
    /\ series[n].expiry_near # series[n-1].expiry_near
    /\ series[n-1].expiry_near_date # NoDate
    /\ DateLeq(series[n].date, series[n-1].expiry_near_date)

\* prev && today.expiry_near !== prev.expiry_near
RolloverDue(series, n) ==
    n > 1 /\ series[n].expiry_near # series[n-1].expiry_near

\* (sellPrice - entryPrice) * CONTRACT_MULTIPLIER * currentLots
RawPnL(sellPrice, entry, lots) ==
    Money((sellPrice - entry) * CONTRACT_MULTIPLIER * lots)

RolloverCost_PerTrade(cfg, lots) == Money(cfg.transactionCost)

\* config.transactionCost * currentLots
RolloverCost(cfg, lots) == Money(cfg.transactionCost * lots)

Unrealized_OneLot(price, entry, lots) ==
    Money((price - entry) * CONTRACT_MULTIPLIER)

\* (currentPrice - entryPrice) * CONTRACT_MULTIPLIER * currentLots
Unrealized(price, entry, lots) ==
    Money((price - entry) * CONTRACT_MULTIPLIER * lots)

CompoundingDue_Strict(cfg, equity, baseline) ==
    /\ ~cfg.neverCompound
    /\ cfg.isCompounding
    /\ 100 * (equity - baseline) > cfg.compoundingFactor * baseline

\* !neverCompound && isCompounding &&
\* currentEquity - baselineCapital >= (compoundingFactor / 100) * baselineCapital
CompoundingDue(cfg, equity, baseline) ==
    /\ ~cfg.neverCompound
    /\ cfg.isCompounding
    /\ 100 * (equity - baseline) >= cfg.compoundingFactor * baseline

DoubledLots_Incremented(lots) == lots + 1

\* currentLots *= 2
DoubledLots(lots) == lots * 2

NewPeak_NeverRaised(peak, equity) == peak

NewPeak_LastEquity(peak, equity) == equity

\* if (currentEquity > peakEquity) peakEquity = currentEquity
NewPeak(peak, equity) == IF equity > peak THEN equity ELSE peak

\* peakEquity > 0 ? ((peakEquity - currentEquity) / peakEquity) * 100 : 0,
\* then .toFixed(2): the drawdown in hundredths of a percent.
Drawdown(peak, equity) ==
    IF peak > 0 THEN ToFixed(Num(100 * (peak - equity), peak), 100).num ELSE 0

RolloverTrade(today, prev, lots, rawPnL, cost, cashAfter) ==
    [date |-> today.date, type |-> "Rollover",
     contracts |-> <<prev.expiry_near, today.expiry_near>>,
     sellPrice |-> prev.price_near, buyPrice |-> prev.price_far, lots |-> lots,
     grossPnL |-> rawPnL, cost |-> cost, netPnL |-> rawPnL - cost,
     equity |-> cashAfter]

CompoundingTrade(today, lots, equity) ==
    [date |-> today.date, type |-> "Compounding", contracts |-> "Position Doubled",
     lots |-> lots, equity |-> equity, note |-> "Profit Target Hit"]

EquityPoint(today, equity, lots, dd) ==
    [date |-> today.date, equity |-> MathRound(equity), lots |-> lots,
     drawdown |-> dd]

DrawdownPoint(today, dd) == [date |-> today.date, drawdown |-> dd]

----------------------------------------------------------------------------
(* calculateYoY and the final statistics *)

RECURSIVE SortAscending(_)
SortAscending(S) ==
    IF S = {} THEN <<>>
    ELSE LET m == CHOOSE x \in S : \A y \in S : x <= y
         IN  <<m>> \o SortAscending(S \ {m})

\* Object.keys(yearsMap).sort()
YearsOf(series) ==
    SortAscending({ YearOf(series[n].date) : n \in 1..Len(series) })

IndexesOfYear(series, y) == { n \in 1..Len(series) : YearOf(series[n].date) = y }

Min(S) == CHOOSE x \in S : \A y \in S : x <= y
Max(S) == CHOOSE x \in S : \A y \in S : x >= y

\* yearsMap[y].start: the equity of the year's first point
YearStart(series, y) == series[Min(IndexesOfYear(series, y))].equity

YearEnd_FirstOfYear(series, y) == series[Min(IndexesOfYear(series, y))].equity

\* yearsMap[y].end: the equity of the year's last point
YearEnd(series, y) == series[Max(IndexesOfYear(series, y))].equity

\* ((end - start) / start) * 100
YearReturn(start, end) == JsDiv(100 * (end - start), start)

YoYStart_OwnYear(series, years, n) == YearStart(series, years[n])

\* The start calculateYoY uses for the n-th year.
YoYStart(series, years, n) ==
    IF n > 1 THEN YearEnd(series, years[n-1]) ELSE YearStart(series, years[n])

\* return is ret.toFixed(1): tenths of a percent, or a non-finite number.
CalculateYoY(series) ==
    LET years == YearsOf(series)
    IN  [ n \in 1..Len(years) |->
            [year |-> years[n],
             return |-> ToFixed(YearReturn(YoYStart(series, years, n),
                                           YearEnd(series, years[n])), 10)] ]

RECURSIVE SumReturns(_, _)
SumReturns(yoy, n) ==
    IF n = 0 THEN Num(0, 1) ELSE JsAdd(SumReturns(yoy, n - 1), yoy[n].return)

\* yoy.reduce((acc, curr) => acc + parseFloat(curr.return), 0) / yoy.length
AvgAnnualRet(yoy) ==
    IF Len(yoy) = 0 THEN NaN
    ELSE LET s == SumReturns(yoy, Len(yoy))
         IN  IF s.kind = "num" THEN Num(s.num, s.den * Len(yoy)) ELSE s

\* ((finalEq - initialCapital) / initialCapital) * 100
TotalReturn(finalEq, capital) == JsDiv(100 * (Money(finalEq) - capital), capital)

\* years = Math.max(1, (endD - startD) / (1000 * 60 * 60 * 24 * 365.25)):
\* whether it is more than 1.
MoreThanAYear(cfg) == 4 * (DayNumber(cfg.endDate) - DayNumber(cfg.startDate)) > 1461

\* (Math.pow(finalEq / initialCapital, 1 / years) - 1) * 100: the kind of
\* number it is.  The value of a finite CAGR is a real power and is not
\* represented.
CagrKind(finalEq, capital, cfg) ==
    LET ratio == JsDiv(Money(finalEq), capital)
    IN  CASE ratio.kind = "nan" -> "nan"
          [] ratio.kind = "inf" -> "inf"
          [] ratio.kind = "-inf" -> IF MoreThanAYear(cfg) THEN "inf" ELSE "-inf"
          [] OTHER -> IF ratio.num < 0 /\ MoreThanAYear(cfg) THEN "nan" ELSE "num"

MaxOfSeq_Last(s) == s[Len(s)]

\* Math.max(...series.map(...))
MaxOfSeq(s) == Max({ s[n] : n \in 1..Len(s) })

Reverse_Identity(s) == s

\* trades.reverse()
Reverse(s) == [ n \in 1..Len(s) |-> s[Len(s) + 1 - n] ]

NullStats == [isNull |-> TRUE]

FinalStats(series, capital, cfg, yoy) ==
    LET finalEq == series[Len(series)].equity
    IN  [isNull |-> FALSE,
         initialCapital |-> capital,
         finalCapital |-> finalEq,
         totalReturn |-> TotalReturn(finalEq, capital),
         cagr |-> CagrKind(finalEq, capital, cfg),
         avgAnnualRet |-> AvgAnnualRet(yoy),
         maxDD |-> MaxOfSeq([ n \in 1..Len(series) |-> series[n].drawdown ]),
         maxLots |-> MaxOfSeq([ n \in 1..Len(series) |-> series[n].lots ])]

----------------------------------------------------------------------------
(* The state machine *)

\* No call of runBacktest is in progress: its locals do not exist.
IdleLocals ==
    /\ data = <<>>
    /\ i = 0
    /\ initialCapital = 0
    /\ currentLots = 0
    /\ cash = 0
    /\ entryPrice = 0
    /\ baselineCapital = 0
    /\ peakEquity = 0
    /\ currentEquity = 0
    /\ equitySeries = <<>>
    /\ drawdownSeries = <<>>
    /\ trades = <<>>

NothingPublished ==
    /\ stats = NullStats
    /\ equityCurve = <<>>
    /\ drawdownCurve = <<>>
    /\ yearlyReturns = <<>>
    /\ tradeLog = <<>>

StartRun_KeepsLedger ==
    /\ pc = "idle"
    /\ IF Len(fullData) = 0 \/ Len(FilterData(fullData, config)) < 2
       THEN UNCHANGED <<pc, locals>>
       ELSE LET filtered == FilterData(fullData, config)
                startPrice == filtered[1].price_near
                capital == InitialCapital(startPrice, config)
            IN  /\ pc' = "loop"
                /\ data' = filtered
                /\ i' = 1
                /\ initialCapital' = capital
                /\ currentLots' = config.initialLots
                /\ cash' = capital
                /\ entryPrice' = startPrice
                /\ baselineCapital' = capital
                /\ peakEquity' = capital
                /\ currentEquity' = 0
                /\ equitySeries' = <<>>
                /\ drawdownSeries' = <<>>
                /\ trades' = Reverse(tradeLog)
    /\ UNCHANGED <<fullData, config, published>>

StartRun_ClearsOutputs ==
    /\ pc = "idle"
    /\ IF Len(fullData) = 0 \/ Len(FilterData(fullData, config)) < 2
       THEN /\ UNCHANGED <<pc, locals>>
            /\ stats' = NullStats
            /\ equityCurve' = <<>>
            /\ drawdownCurve' = <<>>
            /\ yearlyReturns' = <<>>
            /\ tradeLog' = <<>>
       ELSE LET filtered == FilterData(fullData, config)
                startPrice == filtered[1].price_near
                capital == InitialCapital(startPrice, config)
            IN  /\ pc' = "loop"
                /\ data' = filtered
                /\ i' = 1
                /\ initialCapital' = capital
                /\ currentLots' = config.initialLots
                /\ cash' = capital
                /\ entryPrice' = startPrice
                /\ baselineCapital' = capital
                /\ peakEquity' = capital
                /\ currentEquity' = 0
                /\ equitySeries' = <<>>
                /\ drawdownSeries' = <<>>
                /\ trades' = <<>>
                /\ UNCHANGED published
    /\ UNCHANGED <<fullData, config>>

\* runBacktest up to the loop: the early returns, the filter, the initial setup.
StartRun ==
    /\ pc = "idle"
    /\ IF Len(fullData) = 0 \/ Len(FilterData(fullData, config)) < 2
       THEN UNCHANGED <<pc, locals>>
       ELSE LET filtered == FilterData(fullData, config)
                startPrice == filtered[1].price_near
                capital == InitialCapital(startPrice, config)
            IN  /\ pc' = "loop"
                /\ data' = filtered
                /\ i' = 1
                /\ initialCapital' = capital
                /\ currentLots' = config.initialLots
                /\ cash' = capital
                /\ entryPrice' = startPrice
                /\ baselineCapital' = capital
                /\ peakEquity' = capital
                /\ currentEquity' = 0
                /\ equitySeries' = <<>>
                /\ drawdownSeries' = <<>>
                /\ trades' = <<>>
    /\ UNCHANGED <<fullData, config, published>>

DayStep_CompoundingFirst ==
    /\ pc = "loop"
    /\ i <= Len(data)
    /\ LET today == data[i]
           before == cash + Unrealized(today.price_near, entryPrice, currentLots)
           comp == CompoundingDue(config, before, baselineCapital)
           lots1 == IF comp THEN DoubledLots(currentLots) ELSE currentLots
           trades1 == IF comp
                      THEN Append(trades, CompoundingTrade(today, lots1, before))
                      ELSE trades
           roll == RolloverDue(data, i)
           rawPnL == RawPnL(data[i-1].price_near, entryPrice, lots1)
           cost == RolloverCost(config, lots1)
           cash1 == IF roll THEN cash + (rawPnL - cost) ELSE cash
           entry1 == IF roll THEN data[i-1].price_far ELSE entryPrice
           equity == cash1 + Unrealized(today.price_near, entry1, lots1)
           peak1 == NewPeak(peakEquity, equity)
           dd == Drawdown(peak1, equity)
       IN  /\ cash' = cash1
           /\ entryPrice' = entry1
           /\ currentEquity' = equity
           /\ currentLots' = lots1
           /\ baselineCapital' = IF comp THEN before ELSE baselineCapital
           /\ trades' = IF roll
                        THEN Append(trades1, RolloverTrade(today, data[i-1], lots1,
                                                           rawPnL, cost, cash1))
                        ELSE trades1
           /\ peakEquity' = peak1
           /\ equitySeries' = Append(equitySeries, EquityPoint(today, equity, lots1, dd))
           /\ drawdownSeries' = Append(drawdownSeries, DrawdownPoint(today, dd))
    /\ i' = i + 1
    /\ UNCHANGED <<fullData, config, published, pending, pc, data, initialCapital>>

DayStep_CompoundingRealises ==
    /\ pc = "loop"
    /\ i <= Len(data)
    /\ LET today == data[i]
           roll == RolloverDue(data, i)
           rawPnL == RawPnL(data[i-1].price_near, entryPrice, currentLots)
           cost == RolloverCost(config, currentLots)
           cash1 == IF roll THEN cash + (rawPnL - cost) ELSE cash
           entry1 == IF roll THEN data[i-1].price_far ELSE entryPrice
           trades1 == IF roll
                      THEN Append(trades, RolloverTrade(today, data[i-1], currentLots,
                                                        rawPnL, cost, cash1))
                      ELSE trades
           equity == cash1 + Unrealized(today.price_near, entry1, currentLots)
           comp == CompoundingDue(config, equity, baselineCapital)
           lots1 == IF comp THEN DoubledLots(currentLots) ELSE currentLots
           peak1 == NewPeak(peakEquity, equity)
           dd == Drawdown(peak1, equity)
       IN  /\ cash' = IF comp THEN equity ELSE cash1
           /\ entryPrice' = IF comp THEN today.price_near ELSE entry1
           /\ currentEquity' = equity
           /\ currentLots' = lots1
           /\ baselineCapital' = IF comp THEN equity ELSE baselineCapital
           /\ trades' = IF comp
                        THEN Append(trades1, CompoundingTrade(today, lots1, equity))
                        ELSE trades1
           /\ peakEquity' = peak1
           /\ equitySeries' = Append(equitySeries, EquityPoint(today, equity, lots1, dd))
           /\ drawdownSeries' = Append(drawdownSeries, DrawdownPoint(today, dd))
    /\ i' = i + 1
    /\ UNCHANGED <<fullData, config, published, pending, pc, data, initialCapital>>

\* One iteration of the loop over the filtered days.
DayStep ==
    /\ pc = "loop"
    /\ i <= Len(data)
    /\ LET today == data[i]
           roll == RolloverDue(data, i)
           rawPnL == RawPnL(data[i-1].price_near, entryPrice, currentLots)
           cost == RolloverCost(config, currentLots)
           cash1 == IF roll THEN cash + (rawPnL - cost) ELSE cash
           entry1 == IF roll THEN data[i-1].price_far ELSE entryPrice
           trades1 == IF roll
                      THEN Append(trades, RolloverTrade(today, data[i-1], currentLots,
                                                        rawPnL, cost, cash1))
                      ELSE trades
           equity == cash1 + Unrealized(today.price_near, entry1, currentLots)
           comp == CompoundingDue(config, equity, baselineCapital)
           lots1 == IF comp THEN DoubledLots(currentLots) ELSE currentLots
           peak1 == NewPeak(peakEquity, equity)
           dd == Drawdown(peak1, equity)
       IN  /\ cash' = cash1
           /\ entryPrice' = entry1
           /\ currentEquity' = equity
           /\ currentLots' = lots1
           /\ baselineCapital' = IF comp THEN equity ELSE baselineCapital
           /\ trades' = IF comp
                        THEN Append(trades1, CompoundingTrade(today, lots1, equity))
                        ELSE trades1
           /\ peakEquity' = peak1
           /\ equitySeries' = Append(equitySeries, EquityPoint(today, equity, lots1, dd))
           /\ drawdownSeries' = Append(drawdownSeries, DrawdownPoint(today, dd))
    /\ i' = i + 1
    /\ UNCHANGED <<fullData, config, published, pending, pc, data, initialCapital>>

FinishRun_PartialOverwrite ==
    /\ pc = "loop"
    /\ i > Len(data)
    /\ IF Len(equitySeries) > 0
       THEN LET yoy == CalculateYoY(equitySeries)
            IN  /\ stats' = FinalStats(equitySeries, initialCapital, config, yoy)
                /\ equityCurve' = equitySeries
                /\ drawdownCurve' = drawdownSeries
                /\ yearlyReturns' = yoy
                /\ UNCHANGED tradeLog
       ELSE UNCHANGED published
    /\ pc' = "idle"
    /\ data' = <<>>
    /\ i' = 0
    /\ initialCapital' = 0
    /\ currentLots' = 0
    /\ cash' = 0
    /\ entryPrice' = 0
    /\ baselineCapital' = 0
    /\ peakEquity' = 0
    /\ currentEquity' = 0
    /\ equitySeries' = <<>>
    /\ drawdownSeries' = <<>>
    /\ trades' = <<>>
    /\ UNCHANGED <<fullData, config, pending>>

FinishRun_Liquidates ==
    /\ pc = "loop"
    /\ i > Len(data)
    /\ LET yoy == CalculateYoY(equitySeries)
           closing == [date |-> data[Len(data)].date, type |-> "Liquidation",
                       lots |-> currentLots, equity |-> currentEquity]
       IN  /\ stats' = FinalStats(equitySeries, initialCapital, config, yoy)
           /\ equityCurve' = equitySeries
           /\ drawdownCurve' = drawdownSeries
           /\ yearlyReturns' = yoy
           /\ tradeLog' = Reverse(Append(trades, closing))
    /\ pc' = "idle"
    /\ data' = <<>>
    /\ i' = 0
    /\ initialCapital' = 0
    /\ currentLots' = 0
    /\ cash' = 0
    /\ entryPrice' = 0
    /\ baselineCapital' = 0
    /\ peakEquity' = 0
    /\ currentEquity' = 0
    /\ equitySeries' = <<>>
    /\ drawdownSeries' = <<>>
    /\ trades' = <<>>
    /\ UNCHANGED <<fullData, config, pending>>

\* After the loop: the final statistics and the five state setters, which
\* React applies together; the call returns.
FinishRun ==
    /\ pc = "loop"
    /\ i > Len(data)
    /\ IF Len(equitySeries) > 0
       THEN LET yoy == CalculateYoY(equitySeries)
            IN  /\ stats' = FinalStats(equitySeries, initialCapital, config, yoy)
                /\ equityCurve' = equitySeries
                /\ drawdownCurve' = drawdownSeries
                /\ yearlyReturns' = yoy
                /\ tradeLog' = Reverse(trades)
       ELSE UNCHANGED published
    /\ pc' = "idle"
    /\ data' = <<>>
    /\ i' = 0
    /\ initialCapital' = 0
    /\ currentLots' = 0
    /\ cash' = 0
    /\ entryPrice' = 0
    /\ baselineCapital' = 0
    /\ peakEquity' = 0
    /\ currentEquity' = 0
    /\ equitySeries' = <<>>
    /\ drawdownSeries' = <<>>
    /\ trades' = <<>>
    /\ UNCHANGED <<fullData, config, pending>>

\* useEffect(() => { runBacktest(); }, [config, fullData])
RunEffect ==
    /\ pending
    /\ pending' = FALSE
    /\ StartRun

\* The engine alone: one run on a series and a configuration.
InitEngine ==
    /\ fullData \in SeriesSet
    /\ config \in EngineConfigs
    /\ NothingPublished
    /\ pending = TRUE
    /\ pc = "idle"
    /\ IdleLocals

NextEngine == RunEffect \/ DayStep \/ FinishRun

SpecEngine == InitEngine /\ [][NextEngine]_vars

----------------------------------------------------------------------------
(* The component: the configuration handlers and the runs they cause *)

\* The series the panel is mounted on (App mounts it once data.length > 0).
PanelSeries ==
    { s \in SeriesSet :
        /\ Len(s) > 0
        /\ \A n \in 1..Len(s) :
              /\ s[n].price_near \in {100, 102}
              /\ s[n].expiry_near_date # NoDate }

\* onClick={runBacktest} of the Run Simulation button
ClickRun ==
    /\ ~pending
    /\ UNCHANGED pending
    /\ StartRun

\* setConfig makes a new config object: the effect is scheduled again.
SetConfig(c) ==
    /\ pc = "idle"
    /\ ~pending
    /\ config' = c
    /\ pending' = TRUE
    /\ UNCHANGED <<fullData, published, pc, locals>>

\* handleChange on the inputs it is wired to; a date input's value is kept,
\* a number input's text is parsed.
HandleChange ==
    \/ \E v \in StartDates : SetConfig([config EXCEPT !.startDate = v])
    \/ \E v \in EndDates : SetConfig([config EXCEPT !.endDate = v])
    \/ \E v \in LotChoices : SetConfig([config EXCEPT !.initialLots = v])
    \/ \E v \in MarginChoices : SetConfig([config EXCEPT !.initialMarginPercent = v])
    \/ /\ ~config.neverCompound    \* the input is rendered only then
       /\ \E v \in FactorChoices : SetConfig([config EXCEPT !.compoundingFactor = v])

\* The MAX button: endDate becomes today.
ClickMax == SetConfig([config EXCEPT !.endDate = Today])

ToggleNeverCompound_FlagOnly ==
    \E checked \in BOOLEAN :
        SetConfig([config EXCEPT !.neverCompound = checked])

\* The Never Compound checkbox.
ToggleNeverCompound ==
    \E checked \in BOOLEAN :
        SetConfig([config EXCEPT !.neverCompound = checked, !.isCompounding = ~checked])

Init ==
    /\ fullData \in PanelSeries
    /\ config = DefaultConfig
    /\ NothingPublished
    /\ pending = TRUE
    /\ pc = "idle"
    /\ IdleLocals

Next ==
    \/ RunEffect
    \/ ClickRun
    \/ DayStep
    \/ FinishRun
    \/ HandleChange
    \/ ClickMax
    \/ ToggleNeverCompound

Spec == Init /\ [][Next]_vars

----------------------------------------------------------------------------
(* Properties.  During a run (pc = "loop") the days 1 .. i-1 of the filtered *)
(* series have been processed.                                              *)

InRun == pc = "loop"

Published == ~stats.isNull

\* A Rollover trade dated `date` is in the ledger `ledger`.
RolloverRecorded(ledger, date) ==
    \E k \in 1..Len(ledger) : ledger[k].type = "Rollover" /\ ledger[k].date = date

CompoundingRecorded(ledger, date) ==
    \E k \in 1..Len(ledger) : ledger[k].type = "Compounding" /\ ledger[k].date = date

LabelChange(series, n) ==
    n > 1 /\ series[n].expiry_near # series[n-1].expiry_near

\* The near label changes on day n, after the recorded expiry date of the
\* previous day's near contract.
StaleLabelChange(series, n) ==
    /\ LabelChange(series, n)
    /\ series[n-1].expiry_near_date # NoDate
    /\ DateLess(series[n-1].expiry_near_date, series[n].date)

\* C1 (as claimed): on a day whose near label changed after the previous
\* contract's recorded expiry date, the day's step records no Rollover trade
\* for that day and leaves cash and entryPrice as they were.
C1_StaleRolloverGuard ==
    [][ (InRun /\ i <= Len(data) /\ StaleLabelChange(data, i))
        => /\ ~RolloverRecorded(trades', data[i].date)
           /\ cash' = cash
           /\ entryPrice' = entryPrice ]_vars

\* C2: a Rollover trade is recorded for a processed day only if the day has a
\* predecessor whose near label differs; and when that predecessor carries no
\* expiry date every such label change has its Rollover trade.  So there is
\* none on the first day and none on a day whose label equals the previous one.
C2_RolloverOnlyOnLabelChange ==
    InRun =>
        \A n \in 1..(i - 1) :
            /\ RolloverRecorded(trades, data[n].date)
                 => (n > 1 /\ data[n].expiry_near # data[n-1].expiry_near)
            /\ (LabelChange(data, n) /\ data[n-1].expiry_near_date = NoDate)
                 => RolloverRecorded(trades, data[n].date)

C2_Witness ==
    /\ InRun
    /\ i = 4
    /\ LabelChange(data, 3)
    /\ ~LabelChange(data, 2)
    /\ data[2].expiry_near_date = NoDate
    /\ RolloverRecorded(trades, data[3].date)
    /\ ~RolloverRecorded(trades, data[2].date)

\* The trades the step from the current state has appended.
NewTrades == SubSeq(trades', Len(trades) + 1, Len(trades'))

\* C3, the step: a day's step that records a Rollover trade, with L lots held
\* before it, realises gross = (prev.price_near - entryPrice) * 100 * L, charges
\* cost = transactionCost * L, adds gross - cost to cash, re-enters at
\* prev.price_far, and records exactly one Rollover trade, dated that day,
\* carrying these values and L lots; the lots stay L unless the same day's
\* compounding doubles them.
C3_RolloverStep ==
    (InRun /\ i <= Len(data) /\ RolloverRecorded(NewTrades, data[i].date))
    => LET L == currentLots
           prev == data[i-1]
           gross == (prev.price_near - entryPrice) * 100 * L * MoneyUnit
           cost == config.transactionCost * L * MoneyUnit
           t == NewTrades[1]
       IN  /\ cash' = cash + (gross - cost)
           /\ entryPrice' = prev.price_far
           /\ t.type = "Rollover"
           /\ t.date = data[i].date
           /\ t.sellPrice = prev.price_near
           /\ t.buyPrice = prev.price_far
           /\ t.lots = L
           /\ t.grossPnL = gross
           /\ t.cost = cost
           /\ t.netPnL = gross - cost
           /\ Cardinality({ k \in 1..Len(trades') :
                              /\ trades'[k].type = "Rollover"
                              /\ trades'[k].date = data[i].date }) = 1
           /\ \/ currentLots' = L
              \/ CompoundingRecorded(NewTrades, data[i].date)

ScenarioRun == fullData = ScenarioData /\ config = ScenarioConfig

\* C3, the scenario: near 100, 102, 102; far 101, 103, 104; labels A, A, B;
\* 1 lot, margin 10 %, cost 50: after the third day one Rollover trade with
\* gross 200, cost 50, net 150; cash 1150, entryPrice 103; final equity 1050.
C3_Scenario ==
    /\ (ScenarioRun /\ InRun /\ i = 4)
        => /\ Len(trades) = 1
           /\ trades[1].type = "Rollover"
           /\ trades[1].grossPnL = Money(200)
           /\ trades[1].cost = Money(50)
           /\ trades[1].netPnL = Money(150)
           /\ cash = Money(1150)
           /\ entryPrice = 103
           /\ currentEquity = Money(1050)
           /\ equitySeries[1].equity = 1000
           /\ equitySeries[3].equity = 1050
    /\ (ScenarioRun /\ Published) => stats.finalCapital = 1050

\* C3: every executed rollover books the trade as specified, and the scenario
\* of section 8 ends with the stated figures.
C3_RolloverAccounting == [][C3_RolloverStep]_vars /\ []C3_Scenario

C3_Witness == ScenarioRun /\ InRun /\ i = 4 /\ Len(trades) = 1

\* The last run was made with the current configuration and has returned.
Settled == pc = "idle" /\ ~pending

\* C4 (as claimed): after a run whose filtered series has fewer than two
\* observations nothing is available to display, whatever ran before.
C4_NoResultsOnInsufficientData ==
    (Settled /\ Len(FilterData(fullData, config)) < 2) => NothingPublished

\* C5 (as claimed): on a rollover day d, with the lots held before the step,
\* currentEquity(d) = currentEquity(prev) - cost
\*                    + (d.price_near - prev.price_far) * 100 * lots.
C5_EquityContinuity ==
    [][ (InRun /\ i <= Len(data) /\ RolloverRecorded(NewTrades, data[i].date))
        => currentEquity' =
             currentEquity - config.transactionCost * currentLots * MoneyUnit
             + (data[i].price_near - data[i-1].price_far) * 100 * currentLots
               * MoneyUnit ]_vars

RECURSIVE Pow2(_)
Pow2(k) == IF k = 0 THEN 1 ELSE 2 * Pow2(k - 1)

\* The number of Compounding trades of the ledger dated `date` or earlier.
CompoundingsUpTo(ledger, date) ==
    Cardinality({ k \in 1..Len(ledger) :
                    ledger[k].type = "Compounding" /\ DateLeq(ledger[k].date, date) })

\* C6: from an equity point to the next the lots stay or double, and a
\* point's lots are initialLots * 2^k, k the number of Compounding trades
\* recorded up to and including its day.
C6_MonotoneLots ==
    InRun =>
        /\ \A n \in 1..(Len(equitySeries) - 1) :
             equitySeries[n+1].lots \in
                 {equitySeries[n].lots, 2 * equitySeries[n].lots}
        /\ \A n \in 1..Len(equitySeries) :
             equitySeries[n].lots =
                 config.initialLots * Pow2(CompoundingsUpTo(trades, equitySeries[n].date))

C6_Witness ==
    /\ InRun
    /\ Len(equitySeries) = 3
    /\ config.initialLots = 2
    /\ equitySeries[1].lots = 2
    /\ equitySeries[2].lots = 4
    /\ equitySeries[3].lots = 8

\* The point of the day the loop has just processed.
LastPoint == equitySeries[Len(equitySeries)]

\* C7 (as claimed): every point's drawdown is within 0 .. 100 %, and is 0 on
\* a day whose currentEquity is the running peak.
C7_DrawdownWithin0And100 ==
    (InRun /\ i > 1) =>
        /\ \A n \in 1..Len(equitySeries) :
             equitySeries[n].drawdown >= 0 /\ equitySeries[n].drawdown <= 100 * 100
        /\ currentEquity = peakEquity => LastPoint.drawdown = 0

\* C7 (amended): every point's drawdown is >= 0; it is <= 100 % on every day
\* whose currentEquity is not negative; and it is 0 on a day whose
\* currentEquity is the running peak.
C7_DrawdownBound ==
    (InRun /\ i > 1) =>
        /\ \A n \in 1..Len(equitySeries) : equitySeries[n].drawdown >= 0
        /\ currentEquity >= 0 => LastPoint.drawdown <= 100 * 100
        /\ currentEquity = peakEquity => LastPoint.drawdown = 0
        /\ drawdownSeries[Len(drawdownSeries)].drawdown = LastPoint.drawdown

C7_Witness ==
    /\ InRun
    /\ i = 4
    /\ equitySeries[2].drawdown > 0
    /\ equitySeries[2].drawdown < 100 * 100
    /\ currentEquity = peakEquity
    /\ currentEquity > initialCapital
    /\ LastPoint.drawdown = 0

\* C8: the series the loop walks holds exactly the observations of the input
\* whose date is within [startDate, endDate], both ends included, each once
\* and in the input's order.
C8_SeriesFilter ==
    InRun =>
        LET inside == { n \in 1..Len(fullData) :
                          /\ DateLeq(config.startDate, fullData[n].date)
                          /\ DateLeq(fullData[n].date, config.endDate) }
        IN  /\ Len(data) = Cardinality(inside)
            /\ \A n \in inside : \E m \in 1..Len(data) : data[m] = fullData[n]
            /\ \A m \in 1..Len(data) : \E n \in inside : data[m] = fullData[n]
            /\ \A m \in 1..(Len(data) - 1) : DateLess(data[m].date, data[m+1].date)

\* A window that starts on the second observation's date and ends on the
\* third's: the first day is cut off, the days on the two ends are kept.
C8_Witness ==
    /\ InRun
    /\ Len(fullData) = 3
    /\ config.startDate = fullData[2].date
    /\ config.endDate = fullData[3].date
    /\ data = <<fullData[2], fullData[3]>>

\* The published yearly returns, as the chain of the claim reads them: year
\* n starts from the initial capital (n = 1) or the previous year's last
\* equity, and ends at the year's last equity.
ChainStart(n) ==
    IF n = 1 THEN MathRound(stats.initialCapital)
    ELSE YearEnd(equityCurve, YearsOf(equityCurve)[n-1])

ChainEnd(n) == YearEnd(equityCurve, YearsOf(equityCurve)[n])

\* start * (1 + r/100) is end, up to the rounding of r to one decimal.
ChainLink(start, end, r) ==
    /\ r.kind = "num"
    /\ 2 * Abs(1000 * end - start * (1000 + r.num)) <= Abs(start)

Chained ==
    /\ Len(yearlyReturns) = Len(YearsOf(equityCurve))
    /\ \A n \in 1..Len(yearlyReturns) :
         /\ yearlyReturns[n].year = YearsOf(equityCurve)[n]
         /\ ChainLink(ChainStart(n), ChainEnd(n), yearlyReturns[n].return)
    /\ ChainEnd(Len(yearlyReturns)) = stats.finalCapital

\* C9 (as claimed): for every run that produces results, the yearly returns
\* applied in year order from the initial capital reproduce the final equity,
\* up to rounding.
C9_ChainingAlways == Published => Chained

\* C9 (amended): ... for every run that produces results in which no year
\* starts from zero equity.
C9_YearlyReturnChaining ==
    (Published /\ \A n \in 1..Len(yearlyReturns) : ChainStart(n) # 0) => Chained

C9_Witness ==
    /\ Published
    /\ Len(yearlyReturns) = 2
    /\ ChainStart(1) # 0
    /\ ChainStart(2) # 0
    /\ yearlyReturns[1].return.num > 0
    /\ yearlyReturns[2].return.num < 0
    /\ stats.initialCapital % MoneyUnit # 0
    /\ Chained

\* C10 (as claimed): no output of a run is infinite or not-a-number, and a
\* return whose denominator is zero or negative is reported as 0.
C10_GuardedToZero ==
    Published =>
        /\ IsFinite(stats.totalReturn)
        /\ stats.cagr = "num"
        /\ IsFinite(stats.avgAnnualRet)
        /\ \A n \in 1..Len(yearlyReturns) : IsFinite(yearlyReturns[n].return)
        /\ stats.initialCapital <= 0 => stats.totalReturn.num = 0
        /\ \A n \in 1..Len(yearlyReturns) :
             ChainStart(n) <= 0 => yearlyReturns[n].return.num = 0

----------------------------------------------------------------------------
(* The outputs as a reader of the component's state sees them *)

\* The five outputs fit together as the outputs of one run do: the drawdown
\* curve is the equity curve's drawdown column, the yearly returns and the
\* summary are derived from the equity curve, every trade is dated on a day
\* of the equity curve, and the lots of the curve double exactly on the days
\* of the Compounding trades, to the lots those trades carry.
OfOneRun ==
    /\ Len(equityCurve) >= 2
    /\ Len(drawdownCurve) = Len(equityCurve)
    /\ \A n \in 1..Len(equityCurve) :
         /\ drawdownCurve[n].date = equityCurve[n].date
         /\ drawdownCurve[n].drawdown = equityCurve[n].drawdown
    /\ yearlyReturns = CalculateYoY(equityCurve)
    /\ stats.finalCapital = equityCurve[Len(equityCurve)].equity
    /\ stats.maxLots = equityCurve[Len(equityCurve)].lots
    /\ \A k \in 1..Len(tradeLog) :
         \E n \in 1..Len(equityCurve) :
            /\ equityCurve[n].date = tradeLog[k].date
            /\ tradeLog[k].type = "Compounding" => tradeLog[k].lots = equityCurve[n].lots
    /\ \A n \in 1..Len(equityCurve) :
         LET before == IF n = 1 THEN config.initialLots ELSE equityCurve[n-1].lots
         IN  (n > 1 /\ equityCurve[n].lots # before)
               => CompoundingRecorded(tradeLog, equityCurve[n].date)

\* The step replaces the outputs: all five become those of the run that is
\* returning.
ReplacedByThisRun ==
    /\ InRun
    /\ i > Len(data)
    /\ pc' = "idle"
    /\ equityCurve' = equitySeries
    /\ drawdownCurve' = drawdownSeries
    /\ tradeLog' = Reverse(trades)
    /\ yearlyReturns' = CalculateYoY(equitySeries)
    /\ ~stats'.isNull
    /\ stats'.initialCapital = initialCapital
    /\ stats'.finalCapital = LastPoint.equity

\* C11: in every state the five outputs are either all empty (no run has
\* produced results yet) or all the outputs of one and the same run; and a
\* step that changes any of them is the return of a run, which replaces all
\* five by that run's outputs at once.
C11_AtomicReplacement ==
    /\ [](IF Published THEN OfOneRun ELSE NothingPublished)
    /\ [][published' # published => ReplacedByThisRun]_vars

\* The results of the mount's run (1 lot) have been replaced by those of a
\* run with 2 lots that compounded and then rolled over.
C11_Witness ==
    /\ Settled
    /\ Published
    /\ config.initialLots = 2
    /\ equityCurve[1].lots = 4
    /\ CompoundingRecorded(tradeLog, equityCurve[1].date)
    /\ RolloverRecorded(tradeLog, equityCurve[Len(equityCurve)].date)
    /\ OfOneRun

----------------------------------------------------------------------------
(* runBacktest as a function of (fullData, config) *)

\* The locals of runBacktest after the first n days of the filtered series
\* `series`, computed from the series and the configuration alone.
RECURSIVE ReplayTo(_, _, _)
ReplayTo(series, cfg, n) ==
    IF n = 0
    THEN LET capital == InitialCapital(series[1].price_near, cfg)
         IN  [currentLots |-> cfg.initialLots, cash |-> capital,
              entryPrice |-> series[1].price_near, baselineCapital |-> capital,
              peakEquity |-> capital, equitySeries |-> <<>>,
              drawdownSeries |-> <<>>, trades |-> <<>>]
    ELSE LET s == ReplayTo(series, cfg, n - 1)
             today == series[n]
             roll == RolloverDue(series, n)
             rawPnL == RawPnL(series[n-1].price_near, s.entryPrice, s.currentLots)
             cost == RolloverCost(cfg, s.currentLots)
             cash1 == IF roll THEN s.cash + (rawPnL - cost) ELSE s.cash
             entry1 == IF roll THEN series[n-1].price_far ELSE s.entryPrice
             trades1 == IF roll
                        THEN Append(s.trades,
                                    RolloverTrade(today, series[n-1], s.currentLots,
                                                  rawPnL, cost, cash1))
                        ELSE s.trades
             equity == cash1 + Unrealized(today.price_near, entry1, s.currentLots)
             comp == CompoundingDue(cfg, equity, s.baselineCapital)
             lots1 == IF comp THEN DoubledLots(s.currentLots) ELSE s.currentLots
             peak1 == NewPeak(s.peakEquity, equity)
             dd == Drawdown(peak1, equity)
         IN  [currentLots |-> lots1, cash |-> cash1, entryPrice |-> entry1,
              baselineCapital |-> IF comp THEN equity ELSE s.baselineCapital,
              peakEquity |-> peak1,
              equitySeries |-> Append(s.equitySeries,
                                      EquityPoint(today, equity, lots1, dd)),
              drawdownSeries |-> Append(s.drawdownSeries, DrawdownPoint(today, dd)),
              trades |-> IF comp
                         THEN Append(trades1, CompoundingTrade(today, lots1, equity))
                         ELSE trades1]

\* What a run on (series, cfg) hands to the five setters; the series has at
\* least two observations in the window.
RunOutputs(series, cfg) ==
    LET filtered == FilterData(series, cfg)
        s == ReplayTo(filtered, cfg, Len(filtered))
        yoy == CalculateYoY(s.equitySeries)
    IN  << FinalStats(s.equitySeries,
                      InitialCapital(filtered[1].price_near, cfg), cfg, yoy),
           s.equitySeries, s.drawdownSeries, yoy, Reverse(s.trades) >>

\* C12: a run that produces outputs produces those the function RunOutputs
\* gives for its observations and configuration, whatever the component's
\* state before it; so once a run on at least two observations has returned,
\* the five outputs depend on (fullData, config) alone, and two such runs on
\* the same inputs produce the same outputs, whichever runs came before.
C12_Determinism ==
    /\ []((Settled /\ Len(FilterData(fullData, config)) >= 2)
            => published = RunOutputs(fullData, config))
    /\ [][(InRun /\ pc' = "idle") => published' = RunOutputs(fullData, config)]_vars

\* A run that follows the mount's run and a run with another window has
\* returned, with trades in its log.
C12_Witness ==
    /\ Settled
    /\ Published
    /\ config.startDate = DataDate(2)
    /\ config.initialMarginPercent = 0
    /\ Len(FilterData(fullData, config)) = 2
    /\ Len(tradeLog) >= 2
    /\ published = RunOutputs(fullData, config)

\* C13: the trade log a run publishes is its chronological ledger read from
\* the end: entry k of the log is entry Len + 1 - k of the ledger, so the first
\* entry is the last event the run recorded; and the dates of the published
\* log never increase from an entry to the next.
C13_TradeLogOrdering ==
    /\ [](\A k \in 1..(Len(tradeLog) - 1) :
            DateLeq(tradeLog[k+1].date, tradeLog[k].date))
    /\ [][(InRun /\ pc' = "idle")
          => /\ Len(tradeLog') = Len(trades)
             /\ \A k \in 1..Len(trades) : tradeLog'[k] = trades[Len(trades) + 1 - k]
             /\ \A k \in 1..(Len(trades) - 1) :
                  DateLeq(trades[k].date, trades[k+1].date)]_vars

\* A published log of three trades over more than one day: a rollover and a
\* compounding on the last day, the compounding (recorded last) first.
C13_Witness ==
    /\ Published
    /\ Len(tradeLog) = 3
    /\ DateLess(tradeLog[3].date, tradeLog[1].date)
    /\ tradeLog[1].type = "Compounding"
    /\ tradeLog[2].type = "Rollover"
    /\ tradeLog[1].date = tradeLog[2].date
    /\ tradeLog[1].date = equityCurve[Len(equityCurve)].date

\* C14: in every configuration the component reaches, isCompounding and
\* neverCompound are not both true (isCompounding is the negation of
\* neverCompound); and an update that sets neverCompound sets isCompounding
\* to false in the same update.
C14_ExclusiveFlags ==
    /\ [](~(config.isCompounding /\ config.neverCompound))
    /\ [](config.isCompounding = ~config.neverCompound)
    /\ [][(config'.neverCompound /\ ~config.neverCompound)
            => ~config'.isCompounding]_vars

\* Never Compound has been ticked and the run it caused has returned.
C14_Witness ==
    /\ Settled
    /\ Published
    /\ config.neverCompound
    /\ ~config.isCompounding
    /\ config.initialMarginPercent = 0
    /\ tradeLog = <<>>

\* C15 (as claimed): once the run that a change of the configuration
\* initiated has returned, the published results are those of the current
\* configuration and series: the outputs of the run on them, or nothing when
\* their window holds fewer than two observations.
C15_ReactiveRerun ==
    Settled =>
        IF Len(FilterData(fullData, config)) >= 2
        THEN published = RunOutputs(fullData, config)
        ELSE NothingPublished

\* The fields of a trade record that carry prices or realised amounts.
PriceFields == {"sellPrice", "buyPrice", "grossPnL", "cost", "netPnL"}

\* The Compounding trades the step from the current state has appended.
NewCompoundings ==
    { k \in 1..Len(NewTrades) : NewTrades[k].type = "Compounding" }

\* C16, a day's step: with E the day's currentEquity and B the baselineCapital
\* before the step, if isCompounding, not neverCompound and
\* E - B >= (compoundingFactor / 100) * B, then the lots double, baselineCapital
\* becomes E and exactly one Compounding trade, dated that day and without
\* price fields, is recorded; otherwise lots and baselineCapital stay and no
\* Compounding trade is recorded.  With B = 1000 and compoundingFactor 200 the
\* lots double exactly when E >= 3000.
C16_CompoundingStep ==
    (InRun /\ i <= Len(data))
    => LET E == currentEquity'
           B == baselineCapital
           due == /\ config.isCompounding
                  /\ ~config.neverCompound
                  /\ 100 * (E - B) >= config.compoundingFactor * B
       IN  /\ due => /\ currentLots' = 2 * currentLots
                     /\ baselineCapital' = E
                     /\ Cardinality(NewCompoundings) = 1
                     /\ \A k \in NewCompoundings :
                          /\ k = Len(NewTrades)
                          /\ NewTrades[k].date = data[i].date
                          /\ NewTrades[k].lots = 2 * currentLots
                          /\ NewTrades[k].equity = E
                          /\ DOMAIN NewTrades[k] \cap PriceFields = {}
           /\ ~due => /\ currentLots' = currentLots
                      /\ baselineCapital' = B
                      /\ NewCompoundings = {}
           /\ (B = Money(1000) /\ config.compoundingFactor = 200
               /\ config.isCompounding /\ ~config.neverCompound)
                => (currentLots' = 2 * currentLots <=> E >= Money(3000))

\* C16: the compounding trigger, on every simulated day.
C16_CompoundingTrigger == [][C16_CompoundingStep]_vars

\* Baseline 1000, threshold 200 %: the equity has just reached exactly 3000
\* and the lots have doubled; the day before, at 1200, they had not.
C16_Witness ==
    /\ InRun
    /\ i = 4
    /\ config = ScenarioConfig
    /\ initialCapital = Money(1000)
    /\ equitySeries[2].equity = 1200
    /\ equitySeries[2].lots = 1
    /\ currentEquity = Money(3000)
    /\ currentLots = 2
    /\ baselineCapital = Money(3000)
    /\ trades[Len(trades)].type = "Compounding"

\* The trades of the ledger dated `date`.
TradesDated(ledger, date) == { k \in 1..Len(ledger) : ledger[k].date = date }

\* The set-up of a run before its first day: the capital is the margin's
\* share of the first day's contract value; cash, baseline and peak are the
\* capital; the position is initialLots entered at the first day's price.
InitialSetup ==
    /\ 100 * initialCapital
         = data[1].price_near * 100 * config.initialLots * config.initialMarginPercent
    /\ (i = 1) => /\ cash = initialCapital
                  /\ baselineCapital = initialCapital
                  /\ peakEquity = initialCapital
                  /\ entryPrice = data[1].price_near
                  /\ currentLots = config.initialLots
                  /\ equitySeries = <<>>
                  /\ trades = <<>>

\* The first day leaves cash, entry price and peak as set up, and its point
\* has the rounded capital as equity and no drawdown.
FirstPoint ==
    /\ equitySeries[1].date = data[1].date
    /\ equitySeries[1].equity = (2 * initialCapital + MoneyUnit) \div (2 * MoneyUnit)
    /\ equitySeries[1].drawdown = 0
    /\ drawdownSeries[1].drawdown = 0
    /\ (i = 2) => /\ cash = initialCapital
                  /\ entryPrice = data[1].price_near
                  /\ peakEquity = initialCapital
                  /\ currentEquity = initialCapital

\* C17 (as claimed): ... and neither rollover nor compounding applies to the
\* first day: the first point's lots are initialLots and no trade is dated on
\* the first day.
C17_FirstDayUntouched ==
    InRun =>
        /\ InitialSetup
        /\ (i >= 2) => /\ FirstPoint
                       /\ equitySeries[1].lots = config.initialLots
                       /\ TradesDated(trades, data[1].date) = {}

\* The compounding check is met on the first day, whose equity is the capital:
\* compounding is enabled and (compoundingFactor / 100) * initialCapital <= 0.
FirstDayCompounds ==
    /\ config.isCompounding
    /\ ~config.neverCompound
    /\ config.compoundingFactor * initialCapital <= 0

\* C17 (amended): the set-up is as claimed and the rollover applies only to
\* days after the first: the first point has equity round(initialCapital) and
\* drawdown 0 and no Rollover trade is dated on the first day.  The compounding
\* check applies to the first day too: the first point's lots are initialLots
\* and no trade is dated on the first day, unless compounding is enabled and
\* (compoundingFactor / 100) * initialCapital <= 0; then the lots double on the
\* first day and one Compounding trade, and no other trade, is dated that day.
C17_InitialStateAndFirstPoint ==
    InRun =>
        /\ InitialSetup
        /\ (i >= 2) =>
             /\ FirstPoint
             /\ ~RolloverRecorded(trades, data[1].date)
             /\ IF FirstDayCompounds
                THEN /\ equitySeries[1].lots = 2 * config.initialLots
                     /\ Cardinality(TradesDated(trades, data[1].date)) = 1
                     /\ CompoundingRecorded(trades, data[1].date)
                ELSE /\ equitySeries[1].lots = config.initialLots
                     /\ TradesDated(trades, data[1].date) = {}

\* The first day of a run on a 12.25 % margin has been processed: the capital
\* 1102.50 is published as 1103.
C17_Witness ==
    /\ InRun
    /\ i = 2
    /\ initialCapital % MoneyUnit # 0
    /\ initialCapital > 0
    /\ equitySeries[1].equity * MoneyUnit > initialCapital
    /\ equitySeries[1].lots = config.initialLots
    /\ trades = <<>>

\* The positions in the ledger of the trades of kind `type` dated `date`.
TradesOfKind(ledger, type, date) ==
    { k \in 1..Len(ledger) : ledger[k].type = type /\ ledger[k].date = date }

\* C18, a day's step: with L the lots before the step, the step records at most
\* one Compounding trade; when it records a Rollover trade, that trade's lots
\* are L, its grossPnL is (prev.price_near - entryPrice) * 100 * L and its cost
\* is transactionCost * L, also when the lots double that day; and the day's
\* equity, on which the compounding check is made, already includes the
\* rollover: it is the cash after the rollover plus the unrealized P&L against
\* the new entry price, with L lots.
C18_StepOrder ==
    (InRun /\ i <= Len(data))
    => LET L == currentLots
           today == data[i]
       IN  /\ Cardinality(NewCompoundings) <= 1
           /\ \A k \in 1..Len(NewTrades) :
                NewTrades[k].type = "Rollover"
                  => /\ NewTrades[k].lots = L
                     /\ NewTrades[k].grossPnL
                          = (data[i-1].price_near - entryPrice) * 100 * L * MoneyUnit
                     /\ NewTrades[k].cost = config.transactionCost * L * MoneyUnit
           /\ currentEquity'
                = cash' + (today.price_near - entryPrice') * 100 * L * MoneyUnit
           /\ \A k \in NewCompoundings : NewTrades[k].equity = currentEquity'

\* C18, the ledger: a day has at most one Compounding trade and at most one
\* Rollover trade, and a day's Rollover trade stands before that day's
\* Compounding trade.
C18_LedgerOrder ==
    InRun =>
        \A n \in 1..Len(data) :
            /\ Cardinality(TradesOfKind(trades, "Compounding", data[n].date)) <= 1
            /\ Cardinality(TradesOfKind(trades, "Rollover", data[n].date)) <= 1
            /\ \A r \in TradesOfKind(trades, "Rollover", data[n].date) :
                 \A c \in TradesOfKind(trades, "Compounding", data[n].date) : r < c

\* C18: the compounding check runs once a day, after the day's rollover.
C18_OrderWithinDay == [][C18_StepOrder]_vars /\ []C18_LedgerOrder

\* The third day rolled over with 1 lot and then doubled to 2 lots.
C18_Witness ==
    /\ InRun
    /\ i = 4
    /\ Len(trades) = 2
    /\ trades[1].type = "Rollover"
    /\ trades[1].date = data[3].date
    /\ trades[1].lots = 1
    /\ trades[1].cost = Money(50)
    /\ trades[2].type = "Compounding"
    /\ trades[2].date = data[3].date
    /\ trades[2].lots = 2
    /\ currentLots = 2

\* Math.round of an amount held in money units: the nearest whole number, a
\* half rounding up.
Rounded(u) == (2 * u + MoneyUnit) \div (2 * MoneyUnit)

\* C19, a day's step: the step appends exactly one equity point and one
\* drawdown point, dated that day.  With L the lots before the step, the
\* point's equity is round(cash + (d.price_near - entryPrice) * 100 * L), cash
\* and entryPrice taken after the day's rollover; its lots are the lots after
\* the day's compounding check.
C19_MarkStep ==
    (InRun /\ i <= Len(data))
    => LET L == currentLots
           d == data[i]
           p == equitySeries'[Len(equitySeries')]
       IN  /\ Len(equitySeries') = Len(equitySeries) + 1
           /\ Len(drawdownSeries') = Len(drawdownSeries) + 1
           /\ SubSeq(equitySeries', 1, Len(equitySeries)) = equitySeries
           /\ p.date = d.date
           /\ drawdownSeries'[Len(drawdownSeries')].date = d.date
           /\ p.equity
                = Rounded(cash' + (d.price_near - entryPrice') * 100 * L * MoneyUnit)
           /\ p.lots = currentLots'

\* The curves have a point for each day of `series`, in its order.
DatesOf(curve, series) ==
    /\ Len(curve) = Len(series)
    /\ \A n \in 1..Len(series) : curve[n].date = series[n].date

\* C19, the curves: during a run the two series hold the days processed so
\* far, and on its return the published equity and drawdown curves have the
\* length and the dates of the filtered series.
C19_Curves ==
    /\ InRun => /\ DatesOf(equitySeries, SubSeq(data, 1, i - 1))
                /\ DatesOf(drawdownSeries, SubSeq(data, 1, i - 1))
    /\ (Settled /\ Len(FilterData(fullData, config)) >= 2)
         => /\ DatesOf(equityCurve, FilterData(fullData, config))
            /\ DatesOf(drawdownCurve, FilterData(fullData, config))

\* C19: mark-to-market, one point per filtered day.
C19_MarkToMarket == [][C19_MarkStep]_vars /\ []C19_Curves

\* Three days on a 12.25 % margin: the lots doubled on the second day, the
\* third day rolled over, and its equity is published rounded.
C19_Witness ==
    /\ InRun
    /\ i = 4
    /\ equitySeries[1].lots = 1
    /\ equitySeries[2].lots = 2
    /\ RolloverRecorded(trades, data[3].date)
    /\ currentEquity % MoneyUnit # 0
    /\ equitySeries[3].equity = Rounded(currentEquity)
    /\ equitySeries[3].equity # equitySeries[2].equity

\* The currentEquity of day n of the run in progress, recomputed from the
\* filtered series and the configuration: the cash and entry price after that
\* day's rollover, the lots of before that day's compounding.
EquityOn(n) ==
    LET s == ReplayTo(data, config, n)
        L == ReplayTo(data, config, n - 1).currentLots
    IN  s.cash + (data[n].price_near - s.entryPrice) * 100 * L * MoneyUnit

\* C20, the peak: after each day peakEquity is the greatest of initialCapital
\* and the currentEquity of every day processed so far.
C20_Peak ==
    InRun =>
        LET seen == {initialCapital} \cup { EquityOn(n) : n \in 1..(i - 1) }
        IN  /\ peakEquity \in seen
            /\ \A e \in seen : e <= peakEquity
            /\ (i > 1) => currentEquity = EquityOn(i - 1)

\* C20, the drawdown: the day's drawdown is (peakEquity - currentEquity) /
\* peakEquity * 100, to two decimals, when peakEquity > 0, and 0 when
\* peakEquity <= 0.  (The drawdown is held in hundredths of a percent.)
C20_DrawdownOfDay ==
    (InRun /\ i > 1) =>
        LET dd == LastPoint.drawdown
            percent == 100 * (peakEquity - currentEquity)
            whole == percent \div peakEquity
            rest == percent % peakEquity
            hundredths == dd - 100 * whole
        IN  IF peakEquity > 0
            THEN 2 * Abs(hundredths * peakEquity - 100 * rest) <= peakEquity
            ELSE dd = 0

\* C20: drawdown tracking; the peak never decreases during a run.
C20_DrawdownTracking ==
    /\ [](C20_Peak /\ C20_DrawdownOfDay)
    /\ [][(InRun /\ i <= Len(data)) => peakEquity' >= peakEquity]_vars

\* The peak was set on the second day, above the capital; the third day is
\* below it, with a drawdown that needed rounding to two decimals.
C20_Witness ==
    /\ InRun
    /\ i = 4
    /\ initialCapital > 0
    /\ peakEquity = EquityOn(2)
    /\ peakEquity > initialCapital
    /\ currentEquity < peakEquity
    /\ currentEquity > 0
    /\ LastPoint.drawdown > 0
    /\ LastPoint.drawdown * peakEquity # 10000 * (peakEquity - currentEquity)

----------------------------------------------------------------------------
(* The published statistics against the published curves *)

\* The positions of the equity curve's points of calendar year y.
PointsOfYear(y) == { n \in 1..Len(equityCurve) : equityCurve[n].date[1] = y }

\* The calendar years present in the equity curve.
CurveYears == { equityCurve[n].date[1] : n \in 1..Len(equityCurve) }

\* The equity a year's return is measured from: the last equity of the
\* preceding year of the series, or for the first year its own first equity.
StartOfYear(y) ==
    LET first == CHOOSE n \in PointsOfYear(y) : \A m \in PointsOfYear(y) : n <= m
    IN  IF \E z \in CurveYears : z < y
        THEN equityCurve[first - 1].equity
        ELSE equityCurve[first].equity

\* The last equity of the year.
EndOfYear(y) ==
    LET last == CHOOSE n \in PointsOfYear(y) : \A m \in PointsOfYear(y) : n >= m
    IN  equityCurve[last].equity

\* r is (end - start) / start * 100 as the code computes and prints it: to
\* one decimal when start is not 0, and the non-finite number the division
\* by 0 gives otherwise.
IsReturnOf(r, start, end) ==
    IF start # 0
    THEN /\ r.kind = "num"
         /\ r.den = 10
         /\ 2 * Abs(r.num * start - 1000 * (end - start)) <= Abs(start)
    ELSE r.kind = (IF end > 0 THEN "inf" ELSE IF end < 0 THEN "-inf" ELSE "nan")

\* C21: the published yearly returns have exactly one record per calendar
\* year of the equity curve, in ascending year order; the record of a year
\* measures from the preceding year's last equity (the first year: from its
\* own first equity) to the year's last equity, and its return is
\* (end - start) / start * 100.
C21_YearlyReturns ==
    Published =>
        /\ { yearlyReturns[k].year : k \in 1..Len(yearlyReturns) } = CurveYears
        /\ Len(yearlyReturns) = Cardinality(CurveYears)
        /\ \A k \in 1..(Len(yearlyReturns) - 1) :
             yearlyReturns[k].year < yearlyReturns[k+1].year
        /\ \A k \in 1..Len(yearlyReturns) :
             IsReturnOf(yearlyReturns[k].return,
                        StartOfYear(yearlyReturns[k].year),
                        EndOfYear(yearlyReturns[k].year))

\* Two points in 2014 and one in 2015: the first year gains from its first
\* point, the second year loses from the first year's last point.
C21_Witness ==
    /\ Published
    /\ Len(equityCurve) = 3
    /\ Len(yearlyReturns) = 2
    /\ yearlyReturns[1].year = 2014
    /\ yearlyReturns[2].year = 2015
    /\ equityCurve[1].equity > 0
    /\ equityCurve[2].equity > equityCurve[1].equity
    /\ equityCurve[3].equity < equityCurve[2].equity
    /\ equityCurve[3].equity # equityCurve[1].equity
    /\ yearlyReturns[1].return.num > 0
    /\ yearlyReturns[2].return.num < 0
    /\ yearlyReturns[2].return.num * equityCurve[2].equity
         # 1000 * (equityCurve[3].equity - equityCurve[2].equity)

\* The sum of the numerators of the first k yearly returns (tenths of a
\* percent).
RECURSIVE TenthsSum(_)
TenthsSum(k) == IF k = 0 THEN 0 ELSE TenthsSum(k - 1) + yearlyReturns[k].return.num

\* x is the number n / d, d > 0.
IsRatio(x, n, d) == x.kind = "num" /\ x.den > 0 /\ x.num * d = n * x.den

\* C22: the published summary agrees with the published curves of the run:
\* finalCapital is the last point's equity; totalReturn is
\* (finalCapital - initialCapital) / initialCapital * 100; maxDD is the greatest
\* drawdown and maxLots the greatest lots of the equity points; avgAnnualRet is
\* the sum of the yearly returns divided by their number.  (A division by 0
\* gives a non-finite number, and a non-finite yearly return a non-finite
\* average.)
C22_SummaryAgrees ==
    Published =>
        LET last == equityCurve[Len(equityCurve)]
            cap == stats.initialCapital
            gain == last.equity * MoneyUnit - cap
            N == Len(yearlyReturns)
        IN  /\ stats.finalCapital = last.equity
            /\ IF cap # 0
               THEN /\ stats.totalReturn.kind = "num"
                    /\ stats.totalReturn.den = Abs(cap)
                    /\ stats.totalReturn.num
                         = (IF cap > 0 THEN 100 * gain ELSE -100 * gain)
               ELSE stats.totalReturn.kind # "num"
            /\ \E n \in 1..Len(equityCurve) : equityCurve[n].drawdown = stats.maxDD
            /\ \A n \in 1..Len(equityCurve) : equityCurve[n].drawdown <= stats.maxDD
            /\ \E n \in 1..Len(equityCurve) : equityCurve[n].lots = stats.maxLots
            /\ \A n \in 1..Len(equityCurve) : equityCurve[n].lots <= stats.maxLots
            /\ N > 0
            /\ IF \A k \in 1..N : yearlyReturns[k].return.kind = "num"
               THEN IsRatio(stats.avgAnnualRet, TenthsSum(N), 10 * N)
               ELSE stats.avgAnnualRet.kind # "num"

\* A run over two years whose greatest drawdown is not the last day's, whose
\* lots doubled, and whose total and average returns are finite.
C22_Witness ==
    /\ Published
    /\ Len(equityCurve) = 3
    /\ Len(yearlyReturns) = 2
    /\ stats.maxDD > equityCurve[3].drawdown
    /\ stats.maxDD = equityCurve[2].drawdown
    /\ stats.maxLots = 2
    /\ equityCurve[1].lots = 1
    /\ stats.totalReturn.kind = "num"
    /\ stats.totalReturn.num # 0
    /\ stats.avgAnnualRet.kind = "num"
    /\ yearlyReturns[1].return.num # yearlyReturns[2].return.num

----------------------------------------------------------------------------
(* Termination *)

\* runBacktest is synchronous: once the effect has called it, nothing else
\* runs until it returns. The effect that is queued is run, each day's step
\* is followed by the next, and the call returns after the last day.
Returns == pc = "loop" /\ i > Len(data) /\ pc' = "idle"

SpecEngineLive ==
    /\ InitEngine
    /\ [][NextEngine]_vars
    /\ WF_vars(RunEffect)
    /\ WF_vars(DayStep)
    /\ WF_pc(Returns)

\* The days of the filtered series that record a trade of kind `type`.
DaysWith(ledger, type) ==
    { n \in 1..Len(data) : TradesOfKind(ledger, type, data[n].date) # {} }

\* C23, the pass: during a run the days 1 .. i-1 have each one point, in the
\* series' order, and the index never exceeds the series' length by more than
\* one; the ledger holds only Rollover and Compounding trades, one for each
\* day that rolled over and one for each day that compounded.
C23_SinglePass ==
    InRun =>
        /\ i \in 1..(Len(data) + 1)
        /\ Len(data) >= 2
        /\ Len(equitySeries) = i - 1
        /\ \A n \in 1..(i - 1) : equitySeries[n].date = data[n].date
        /\ \A k \in 1..Len(trades) : trades[k].type \in {"Rollover", "Compounding"}
        /\ Len(trades) = Cardinality(DaysWith(trades, "Rollover"))
                         + Cardinality(DaysWith(trades, "Compounding"))
        /\ \A n \in DaysWith(trades, "Rollover") : n < i /\ LabelChange(data, n)

\* C23, a step of a run: a day's step moves to the next day; the return
\* comes after the last day, publishes the ledger as it stands (no closing
\* trade is added) and, as final capital, the last day's mark-to-market
\* equity: the cash plus the unrealized P&L of the position still open, at
\* the lots the last day was valued with.
C23_Step ==
    InRun =>
        /\ InRun' => (i' = i + 1 /\ data' = data /\ i <= Len(data))
        /\ ~InRun' =>
             LET d == data[Len(data)]
                 L == IF CompoundingRecorded(trades, d.date)
                      THEN currentLots \div 2 ELSE currentLots
             IN  /\ i = Len(data) + 1
                 /\ Len(tradeLog') = Len(trades)
                 /\ \A k \in 1..Len(trades) :
                      \E m \in 1..Len(trades) : tradeLog'[k] = trades[m]
                 /\ Len(equityCurve') = Len(data)
                 /\ currentEquity
                      = cash + (d.price_near - entryPrice) * CONTRACT_MULTIPLIER * L * MoneyUnit
                 /\ stats'.finalCapital = Rounded(currentEquity)

\* C23: every run on at least two observations in the window returns, after
\* one pass over the filtered days, without liquidating the position.
C23_Termination ==
    /\ []C23_SinglePass
    /\ [][C23_Step]_vars
    /\ (Len(FilterData(fullData, config)) >= 2) ~> (Published /\ pc = "idle")
    /\ InRun ~> ~InRun

\* A run has returned with the position open at a loss: the final capital is
\* the marked-to-market equity, below the realised cash (the capital).
C23_Witness ==
    /\ Published
    /\ pc = "idle"
    /\ Len(equityCurve) = 3
    /\ tradeLog = <<>>
    /\ stats.initialCapital = Money(1020)
    /\ stats.finalCapital = 820

----------------------------------------------------------------------------
(* Lot doubling and the accrued profit *)

\* C24 (as claimed): on a day without a rollover whose near price equals the
\* previous day's, the equity is the previous day's equity, also when the
\* previous day doubled the lots.
C24_DoublingKeepsEquity ==
    [][ ( /\ InRun
          /\ i \in 2..Len(data)
          /\ ~RolloverRecorded(NewTrades, data[i].date)
          /\ data[i].price_near = data[i-1].price_near )
        => currentEquity' = currentEquity ]_vars

----------------------------------------------------------------------------
(* Cash accounting *)

\* The sum of netPnL over the Rollover trades among the first k of `ledger`.
RECURSIVE NetOfRollovers(_, _)
NetOfRollovers(ledger, k) ==
    IF k = 0 THEN 0
    ELSE NetOfRollovers(ledger, k - 1)
         + (IF ledger[k].type = "Rollover" THEN ledger[k].netPnL ELSE 0)

\* C25, the ledger: the cash is the initial capital plus the net P&L of the
\* Rollover trades recorded so far, and each Rollover trade carries the cash
\* it left behind.
C25_Ledger ==
    InRun =>
        /\ cash = initialCapital + NetOfRollovers(trades, Len(trades))
        /\ \A k \in 1..Len(trades) :
             trades[k].type = "Rollover" =>
                 trades[k].equity = initialCapital + NetOfRollovers(trades, k)

\* C25, a day: the cash moves by the net P&L of the Rollover trade the day
\* records, the entry price moves to the previous day's far price on such a
\* day, and neither moves otherwise, whether the day compounds or not.
C25_Day ==
    (InRun /\ i <= Len(data)) =>
        /\ cash' = cash + NetOfRollovers(NewTrades, Len(NewTrades))
        /\ IF RolloverRecorded(NewTrades, data[i].date)
           THEN entryPrice' = data[i-1].price_far
           ELSE entryPrice' = entryPrice /\ cash' = cash
        /\ initialCapital' = initialCapital

\* C25: cash = initialCapital + the sum of netPnL over the Rollover trades;
\* cash and entryPrice change on rollover days only, never by a compounding.
C25_CashIdentity == []C25_Ledger /\ [][C25_Day]_vars

\* A run that rolled over at a profit or loss and then compounded on a later
\* day: the cash is still what the rollover left, the lots have doubled.
C25_Witness ==
    /\ InRun
    /\ i > Len(data)
    /\ \E k \in 1..Len(trades) :
          /\ trades[k].type = "Rollover"
          /\ trades[k].netPnL # 0
          /\ \E m \in (k + 1)..Len(trades) :
                /\ trades[m].type = "Compounding"
                /\ trades[m].date # trades[k].date
                /\ cash = trades[k].equity
    /\ cash # initialCapital

----------------------------------------------------------------------------
(* The early returns *)

\* runBacktest returns before the loop on this series and configuration.
ReturnsEarly(series, cfg) ==
    Len(series) = 0 \/ Len(FilterData(series, cfg)) < 2

\* C26: a run that returns early (the effect's or the button's) leaves the
\* stats, the equity curve, the drawdown curve, the yearly returns and the
\* trade log exactly as they were, and starts no loop.
C26_EarlyReturnKeepsOutputs ==
    [][ (pc = "idle" /\ config' = config /\ ReturnsEarly(fullData, config))
        => (published' = published /\ pc' = "idle") ]_vars

\* A run has returned early on a window without two observations while
\* the results of an earlier run were on display: they still are.
C26_Witness ==
    /\ Settled
    /\ ReturnsEarly(fullData, config)
    /\ Published
    /\ Len(equityCurve) >= 2
    /\ tradeLog # <<>>

====
